---- MODULE Spec2Model ----
(***************************************************************************)
(* Model of the globe view: the Scene Host (Globe.vue), the Marker Layer   *)
(* (markers.vue) and the Line Layer (animated-lines.vue).                  *)
(*                                                                         *)
(* Everything runs on one JavaScript thread, so every action below is one  *)
(* run-to-completion stretch of code: a lifecycle hook, the part of an     *)
(* async function between two awaits, a watcher callback, a timer or an    *)
(* animation-frame callback.                                               *)
(*                                                                         *)
(* Scene-graph objects are identified by small integers.  Only equality of *)
(* object identities is observable, so a newly constructed object gets the *)
(* smallest identity that no live object carries.  The same holds for the  *)
(* handles returned by requestAnimationFrame.                              *)
(*                                                                         *)
(* Lengths are in thousandths (radius 0.92 is 920), angles in degrees and  *)
(* restricted to multiples of 90, where sine and cosine are exact.         *)
(***************************************************************************)
EXTENDS Integers, Sequences, FiniteSets, TLC

VARIABLES
  mounted,                \* the Scene Host and its two child layers are mounted
  hostPc,                 \* position of onMounted/initScene in Globe.vue
  containerRef,           \* Globe.vue containerRef: TRUE when the element is attached
  scene,                  \* Globe.vue scene (the provided handle): NULL or Ref([children])
  globeGroup,             \* Globe.vue globeGroup: "none" or "live"
  groupChildren,          \* children of the Globe Group node
  rotationY,              \* globeGroup.rotation.y in steps of 0.0015 rad
  camera,                 \* Globe.vue camera: NULL or Ref([position])
  renderer,               \* Globe.vue renderer: "none", "live" or "disposed"
  sphere,                 \* Globe.vue sphere
  earthTexture,           \* Globe.vue earthTexture
  controls,               \* Globe.vue controls
  isDragging,             \* Globe.vue isDragging
  hostAnimationFrameId,   \* Globe.vue animationFrameId (NULL: still undefined)
  hostFrames,             \* pending animation-frame callbacks of Globe.vue animate
  focusTimer,             \* the setTimeout(focusOnMarkers, 100) is pending
  resizeListener,         \* handleResize is registered on window
  locations,              \* props.locations
  connections,            \* props.connections
  markers,                \* markers.vue markers
  hoveredMarker,          \* markers.vue hoveredMarker
  cursor,                 \* document.body.style.cursor
  markerSceneQ,           \* markers.vue scene watcher job is queued
  markerPropQ,            \* markers.vue locations watcher job is queued
  lines,                  \* animated-lines.vue lines
  lineProgress,           \* animated-lines.vue lineProgress (sparse array)
  lineAnimationFrameId,   \* animated-lines.vue animationFrameId
  lineFrames,             \* pending animation-frame callbacks of the lines' animate
  lineSceneQ,             \* animated-lines.vue scene watcher job is queued
  linePropQ,              \* animated-lines.vue props watcher job is queued
  lastOp                  \* history: the handler that ran last and the path it took

hostVars == <<hostPc, containerRef, scene, globeGroup, rotationY, camera, renderer,
              sphere, earthTexture, controls, isDragging, hostAnimationFrameId,
              hostFrames, focusTimer, resizeListener>>
propVars == <<locations, connections>>
markerVars == <<markers, hoveredMarker, cursor, markerSceneQ, markerPropQ>>
lineVars == <<lines, lineProgress, lineAnimationFrameId, lineFrames, lineSceneQ,
              linePropQ>>
vars == <<mounted, hostVars, groupChildren, propVars, markerVars, lineVars, lastOp>>

-----------------------------------------------------------------------------
(* Bounds of the model *)

MaxLocs == 2          \* longest locations list
MaxConns == 2         \* longest connections list
MaxLineLoops == 2     \* most animation loops of the Line Layer pending at once
MaxSpin == 2          \* most idle-spin increments applied by the render loop

(* Program constants *)

MarkerRadius == 920   \* 0.92, radius of the marker and arc end points
NumPoints == 51       \* curve.getPoints(50) returns 51 points

\* A nullable reference is NULL or Ref(v); Val gives v back.
NULL == <<>>
Ref(v) == <<v>>
Val(r) == r[1]

HOLE == -1            \* an index of a JavaScript array that was never assigned

BaseColor == "#d5aa0f"
HighlightColor == "#FFC857"

-----------------------------------------------------------------------------
(* Inputs *)

Location(n, la, ln) == [name |-> n, lat |-> la, lng |-> ln]
Connection(f, t) == [from |-> f, to |-> t]

\* A list may name a location twice; "C" is the name of no location.
LocPool == {Location("A", 0, 0), Location("B", 90, 90)}
ConnPool == {Connection("A", "B"), Connection("A", "C")}

BSeq(S, n) == UNION {[1..k -> S] : k \in 0..n}

LocationLists == BSeq(LocPool, MaxLocs)
ConnectionLists == BSeq(ConnPool, MaxConns)
\* readings of Date.now(), in tenths of a second
Times == {0, 7}

-----------------------------------------------------------------------------
(* Helpers *)

Min(S) == CHOOSE x \in S : \A y \in S : x <= y

Ids(nodes) == {n.id : n \in nodes}
SeqIds(s) == {s[k].id : k \in 1..Len(s)}

\* identity of a newly constructed object, given the identities of the live ones
FreshId(used) == Min((1..(Cardinality(used) + 1)) \ used)

SinDeg(d) ==
  LET a == d % 360 IN
  IF a = 90 THEN 1 ELSE IF a = 270 THEN -1 ELSE 0
CosDeg(d) ==
  LET a == d % 360 IN
  IF a = 0 THEN 1 ELSE IF a = 180 THEN -1 ELSE 0

latLngToVector3(lat, lng, radius) ==
  LET phi == 90 - lat
      theta == lng + 180
  IN [x |-> (0 - radius) * SinDeg(phi) * CosDeg(theta),
      y |-> radius * CosDeg(phi),
      z |-> radius * SinDeg(phi) * SinDeg(theta)]

-----------------------------------------------------------------------------
(* Scene graph *)

GroupKind == "Group"

\* children.find((child) => child instanceof THREE.Group) from position k on:
\* a reference to the first group among the children, or NULL
RECURSIVE FindGroupFrom(_, _)
FindGroupFrom(children, k) ==
  IF k > Len(children) THEN NULL
  ELSE IF children[k] = GroupKind THEN Ref(children[k])
  ELSE FindGroupFrom(children, k + 1)

FindGlobeGroup(sc) == FindGroupFrom(Val(sc).children, 1)

Node(kind, id) == [kind |-> kind, id |-> id]

\* globeGroup.remove(o) for every object o of the collection
RemoveAll(gc, coll) == {n \in gc : n.id \notin SeqIds(coll)}

-----------------------------------------------------------------------------
(* Marker Layer: markers.vue *)

\* the marker built for one location: a group holding the sphere mesh and the glow
NewMarker(location, id) ==
  [id |-> id,
   position |-> latLngToVector3(location.lat, location.lng, MarkerRadius),
   color |-> BaseColor]

\* Mutant: the old markers are dropped from the collection but stay in the group.
ClearMarkers_KeepsOld(ms, gc) == gc

\* "Clear existing markers": what is left under the Globe Group
ClearMarkers(ms, gc) == RemoveAll(gc, ms)

\* props.locations.forEach from position k on; live: objects held elsewhere
RECURSIVE BuildMarkers(_, _, _, _, _)
BuildMarkers(locs, k, ms, gc, live) ==
  IF k > Len(locs) THEN [markers |-> ms, group |-> gc]
  ELSE LET id == FreshId(Ids(gc) \cup SeqIds(ms) \cup live)
           marker == NewMarker(locs[k], id)
       IN BuildMarkers(locs, k + 1, Append(ms, marker),
                       gc \cup {Node("Marker", id)}, live)

\* Mutant: the loop over the locations stops one short.
createMarkers_OneShort(sc, ms, gc, locs, live) ==
  IF sc = NULL THEN [path |-> "noscene", markers |-> ms, group |-> gc]
  ELSE IF FindGlobeGroup(sc) = NULL
  THEN [path |-> "nogroup", markers |-> ms, group |-> gc]
  ELSE LET short == SubSeq(locs, 1, Len(locs) - 1)
           built == BuildMarkers(short, 1, <<>>, ClearMarkers(ms, gc), live)
       IN [path |-> "built", markers |-> built.markers, group |-> built.group]

\* createMarkers; path tells which return was taken
createMarkers(sc, ms, gc, locs, live) ==
  IF sc = NULL THEN [path |-> "noscene", markers |-> ms, group |-> gc]
  ELSE IF FindGlobeGroup(sc) = NULL
  THEN [path |-> "nogroup", markers |-> ms, group |-> gc]
  ELSE LET built == BuildMarkers(locs, 1, <<>>, ClearMarkers(ms, gc), live)
       IN [path |-> "built", markers |-> built.markers, group |-> built.group]

\* markers.value[index] of the 0-based index
HasMarker(ms, index) == index >= 0 /\ index + 1 <= Len(ms)

\* material.color.set(color) on the sphere of markers.value[index], if there is one
Recolor(ms, index, color) ==
  IF HasMarker(ms, index)
  THEN [ms EXCEPT ![index + 1].color = color]
  ELSE ms

\* Mutant: leaving a marker does not recolor it.
handleMarkerHover_NoRestore(ms, index, isHovered) ==
  IF isHovered
  THEN [hoveredMarker |-> Ref(index), cursor |-> "pointer",
        markers |-> Recolor(ms, index, HighlightColor)]
  ELSE [hoveredMarker |-> NULL, cursor |-> "auto", markers |-> ms]

\* handleMarkerHover
handleMarkerHover(ms, index, isHovered) ==
  IF isHovered
  THEN [hoveredMarker |-> Ref(index), cursor |-> "pointer",
        markers |-> Recolor(ms, index, HighlightColor)]
  ELSE [hoveredMarker |-> NULL, cursor |-> "auto",
        markers |-> Recolor(ms, index, BaseColor)]

\* a teardown that empties the collection and leaves the visuals in the group
markersUnmounted_KeepsGroup(sc, ms, gc) ==
  IF sc = NULL THEN [path |-> "noscene", markers |-> ms, group |-> gc]
  ELSE IF FindGlobeGroup(sc) = NULL
  THEN [path |-> "nogroup", markers |-> ms, group |-> gc]
  ELSE [path |-> "cleared", markers |-> <<>>, group |-> gc]

\* onUnmounted of markers.vue
markersUnmounted(sc, ms, gc) ==
  IF sc = NULL THEN [path |-> "noscene", markers |-> ms, group |-> gc]
  ELSE IF FindGlobeGroup(sc) = NULL
  THEN [path |-> "nogroup", markers |-> ms, group |-> gc]
  ELSE [path |-> "cleared", markers |-> <<>>, group |-> RemoveAll(gc, ms)]

-----------------------------------------------------------------------------
(* Line Layer: animated-lines.vue *)

\* props.locations.find((loc) => loc.name === name) from position k on:
\* a reference to the first location with the name, or NULL
RECURSIVE FindNamedFrom(_, _, _)
FindNamedFrom(locs, name, k) ==
  IF k > Len(locs) THEN NULL
  ELSE IF locs[k].name = name THEN Ref(locs[k])
  ELSE FindNamedFrom(locs, name, k + 1)

ResolveLocation(locs, name) == FindNamedFrom(locs, name, 1)

\* both end points of the connection resolve
Resolvable(locs, connection) ==
  /\ ResolveLocation(locs, connection.from) # NULL
  /\ ResolveLocation(locs, connection.to) # NULL

\* the per-vertex alpha channel with the first n vertices set
AlphaUpTo(n) == [j \in 0..(NumPoints - 1) |-> IF j < n THEN 1 ELSE 0]

\* the arc built for the connection at 0-based position index.  The control
\* point of the curve needs a square root and is left out; conn records which
\* connection the arc was built for (the code logs it).
\* the Line Layer's projection with the Y and Z components exchanged
lineLatLngToVector3_SwapsYZ(lat, lng, radius) ==
  LET phi == 90 - lat
      theta == lng + 180
  IN [x |-> (0 - radius) * SinDeg(phi) * CosDeg(theta),
      y |-> radius * SinDeg(phi) * SinDeg(theta),
      z |-> radius * CosDeg(phi)]

\* the Line Layer's own copy of the projection
lineLatLngToVector3(lat, lng, radius) ==
  LET phi == 90 - lat
      theta == lng + 180
      x == (0 - radius) * SinDeg(phi) * CosDeg(theta)
      z == radius * SinDeg(phi) * SinDeg(theta)
      y == radius * CosDeg(phi)
  IN [x |-> x, y |-> y, z |-> z]

NewLine(fromLocation, toLocation, index, id) ==
  [id |-> id,
   conn |-> index,
   start |-> lineLatLngToVector3(fromLocation.lat, fromLocation.lng, MarkerRadius),
   end |-> lineLatLngToVector3(toLocation.lat, toLocation.lng, MarkerRadius),
   rgb |-> "gold",
   alpha |-> AlphaUpTo(0)]

\* arr[index] = v on a JavaScript array; positions never assigned are holes
SetAt(arr, index, v) ==
  [k \in 1..(IF index + 1 > Len(arr) THEN index + 1 ELSE Len(arr)) |->
     IF k = index + 1 THEN v ELSE IF k <= Len(arr) THEN arr[k] ELSE HOLE]

\* a clearing that empties the Globe Group of everything but the sphere
ClearLines_ClearsGroup(ls, gc) == {n \in gc : n.kind = "Sphere"}

\* "Clear existing lines": what is left under the Globe Group
ClearLines(ls, gc) == RemoveAll(gc, ls)

\* props.connections.forEach from position k on
RECURSIVE BuildLines(_, _, _, _, _, _, _)
BuildLines(conns, locs, k, ls, lp, gc, live) ==
  IF k > Len(conns) THEN [lines |-> ls, lineProgress |-> lp, group |-> gc]
  ELSE IF ~Resolvable(locs, conns[k])
  THEN BuildLines(conns, locs, k + 1, ls, lp, gc, live)
  ELSE LET id == FreshId(Ids(gc) \cup SeqIds(ls) \cup live)
           line == NewLine(Val(ResolveLocation(locs, conns[k].from)),
                           Val(ResolveLocation(locs, conns[k].to)), k - 1, id)
       IN BuildLines(conns, locs, k + 1, Append(ls, line), SetAt(lp, k - 1, 0),
                     gc \cup {Node("Line", id)}, live)

\* a progress that leaves out the offset of the arc's index
Progress_NoPhase(time, index) == (5 * time) % 100

\* (time * 0.5 + index * 0.2) % 1 in hundredths, time in tenths of a second
Progress(time, index) == (5 * time + 20 * index) % 100

\* Math.floor(totalPoints * progress)
VisiblePoints(progress) == (NumPoints * progress) \div 100

\* a frame that shows the vertices strictly below the visible count
AnimateLine_Strict(line, time, index) ==
  [line EXCEPT !.rgb = "white",
               !.alpha = [j \in 0..(NumPoints - 1) |->
                            IF j < VisiblePoints(Progress(time, index)) THEN 1 ELSE 0]]

\* the body of animate's forEach for the line at 0-based position index
AnimateLine(line, time, index) ==
  [line EXCEPT !.rgb = "white",
               !.alpha = [j \in 0..(NumPoints - 1) |->
                            IF j <= VisiblePoints(Progress(time, index)) THEN 1 ELSE 0]]

\* animate, up to the requestAnimationFrame call.  material.opacity, a sine of
\* the clock, is not modelled.
RECURSIVE AnimateProgress(_, _, _, _)
AnimateProgress(lp, n, time, k) ==
  IF k > n THEN lp
  ELSE AnimateProgress(SetAt(lp, k - 1, Progress(time, k - 1)), n, time, k + 1)

animate(ls, lp, time) ==
  [lines |-> [k \in 1..Len(ls) |-> AnimateLine(ls[k], time, k - 1)],
   lineProgress |-> AnimateProgress(lp, Len(ls), time, 1)]

\* the connections before the first one that does not resolve
RECURSIVE ResolvablePrefix(_, _, _)
ResolvablePrefix(conns, locs, k) ==
  IF k > Len(conns) \/ ~Resolvable(locs, conns[k]) THEN SubSeq(conns, 1, k - 1)
  ELSE ResolvablePrefix(conns, locs, k + 1)

\* Mutant: an unresolved connection ends the loop instead of being skipped.
createLines_StopsAtUnresolved(sc, ls, lp, gc, conns, locs, live) ==
  IF sc = NULL
  THEN [path |-> "noscene", lines |-> ls, lineProgress |-> lp, group |-> gc]
  ELSE IF FindGlobeGroup(sc) = NULL
  THEN [path |-> "nogroup", lines |-> ls, lineProgress |-> lp, group |-> gc]
  ELSE LET built == BuildLines(ResolvablePrefix(conns, locs, 1), locs, 1, <<>>, lp,
                               ClearLines(ls, gc), live)
       IN [path |-> "built", lines |-> built.lines,
           lineProgress |-> built.lineProgress, group |-> built.group]

\* createLines up to the call of animate
createLines(sc, ls, lp, gc, conns, locs, live) ==
  IF sc = NULL
  THEN [path |-> "noscene", lines |-> ls, lineProgress |-> lp, group |-> gc]
  ELSE IF FindGlobeGroup(sc) = NULL
  THEN [path |-> "nogroup", lines |-> ls, lineProgress |-> lp, group |-> gc]
  ELSE LET built == BuildLines(conns, locs, 1, <<>>, lp, ClearLines(ls, gc), live)
       IN [path |-> "built", lines |-> built.lines,
           lineProgress |-> built.lineProgress, group |-> built.group]

\* cancelAnimationFrame(id) on a set of pending callbacks
Cancel(frames, id) == frames \ {id}

\* the handle requestAnimationFrame returns: none of the pending ones, and none
\* of the handles the two components still hold
NextFrame(pending) ==
  FreshId(pending
          \cup {Val(r) : r \in {hostAnimationFrameId, lineAnimationFrameId} \ {NULL}})

\* onUnmounted of animated-lines.vue
linesUnmounted(sc, ls, gc, frames, frameId) ==
  IF sc = NULL
  THEN [path |-> "noscene", lines |-> ls, group |-> gc, frames |-> frames]
  ELSE IF FindGlobeGroup(sc) = NULL
  THEN [path |-> "nogroup", lines |-> ls, group |-> gc, frames |-> frames]
  ELSE [path |-> "cleared", lines |-> <<>>, group |-> RemoveAll(gc, ls),
        frames |-> IF frameId # NULL THEN Cancel(frames, Val(frameId)) ELSE frames]

-----------------------------------------------------------------------------
(* Scene Host: Globe.vue *)

\* Mutant: the Globe Group is not added before the wait for the texture.
SceneAtInit_NoGroup == Ref([children |-> <<>>])

\* Mutant: the scene is not assigned before the wait for the texture.
SceneAtInit_Late == NULL

\* the scene as initScene leaves it when it starts waiting for the texture
SceneAtInit == Ref([children |-> <<GroupKind>>])

\* lights that are added to the scene inside a grouping node of their own
SceneWithLights_Grouped(sc) ==
  Ref([children |-> Val(sc).children \o <<GroupKind>>])

\* scene.add(ambientLight); scene.add(pointLight)
SceneWithLights(sc) ==
  Ref([children |-> Val(sc).children \o <<"AmbientLight", "PointLight">>])

CameraAtInit == Ref([position |-> [x |-> 0, y |-> 0, z |-> 2500, den |-> 1]])

RECURSIVE SumUnit(_, _)
SumUnit(locs, k) ==
  IF k > Len(locs) THEN [x |-> 0, y |-> 0, z |-> 0]
  ELSE LET p == latLngToVector3(locs[k].lat, locs[k].lng, 1)
           r == SumUnit(locs, k + 1)
       IN [x |-> p.x + r.x, y |-> p.y + r.y, z |-> p.z + r.z]

\* focusOnMarkers: the camera position is (x, y, z) / den, in thousandths
focusOnMarkers(cam, locs, ctl) ==
  IF Len(locs) = 0 \/ ctl = "none" \/ cam = NULL THEN cam
  ELSE LET c == SumUnit(locs, 1)
       IN Ref([position |-> [x |-> 2740 * c.x, y |-> 2740 * c.y, z |-> 2740 * c.z,
                             den |-> Len(locs)]])

\* a frame body that turns the globe on every frame, dragged or not
IdleSpin_Always(rotation, dragging) == rotation + 1

\* one frame's idle spin, in steps of 0.0015 rad
IdleSpin(rotation, dragging) == IF dragging THEN rotation ELSE rotation + 1

\* the guard of Globe.vue animate
CanAnimate == scene # NULL /\ camera # NULL /\ renderer # "none" /\ globeGroup # "none"

\* X.dispose() under "if (X.value)"
Dispose(x) == IF x = "none" THEN x ELSE "disposed"

-----------------------------------------------------------------------------
(* The event loop *)

\* no watcher job is queued: the microtask queue of Vue's scheduler is empty
Flushed == ~markerSceneQ /\ ~markerPropQ /\ ~lineSceneQ /\ ~linePropQ

InitWith(locs, conns) ==
  /\ mounted = TRUE
  /\ hostPc = "nextTick"
  /\ containerRef = TRUE
  /\ scene = NULL
  /\ globeGroup = "none"
  /\ groupChildren = {}
  /\ rotationY = 0
  /\ camera = NULL
  /\ renderer = "none"
  /\ sphere = "none"
  /\ earthTexture = "none"
  /\ controls = "none"
  /\ isDragging = FALSE
  /\ hostAnimationFrameId = NULL
  /\ hostFrames = {}
  /\ focusTimer = FALSE
  /\ resizeListener = FALSE
  /\ locations = locs
  /\ connections = conns
  /\ markers = <<>>
  /\ hoveredMarker = NULL
  /\ cursor = ""
  /\ markerSceneQ = FALSE
  /\ markerPropQ = FALSE
  /\ lines = <<>>
  /\ lineProgress = <<>>
  /\ lineAnimationFrameId = NULL
  /\ lineFrames = {}
  /\ lineSceneQ = FALSE
  /\ linePropQ = FALSE
  /\ lastOp = [op |-> "setup"]

Init == \E locs \in LocationLists, conns \in ConnectionLists : InitWith(locs, conns)

\* onMounted after "await nextTick()": initScene up to "await loadAsync"
InitScene ==
  /\ hostPc = "nextTick"
  /\ Flushed
  /\ IF ~containerRef
     THEN /\ hostPc' = "inited"
          /\ lastOp' = [op |-> "initScene", path |-> "nocontainer"]
          /\ UNCHANGED <<scene, camera, renderer, globeGroup, markerSceneQ, lineSceneQ>>
     ELSE /\ hostPc' = "loading"
          /\ scene' = SceneAtInit
          /\ camera' = CameraAtInit
          /\ renderer' = "live"
          /\ globeGroup' = "live"
          /\ markerSceneQ' = mounted
          /\ lineSceneQ' = mounted
          /\ lastOp' = [op |-> "initScene", path |-> "loading"]
  /\ UNCHANGED <<mounted, containerRef, groupChildren, rotationY, sphere, earthTexture,
                 controls, isDragging, hostAnimationFrameId, hostFrames, focusTimer,
                 resizeListener, propVars, markers, hoveredMarker, cursor, markerPropQ,
                 lines, lineProgress, lineAnimationFrameId, lineFrames, linePropQ>>

\* the texture arrives: initScene from "Create sphere" to its end
TextureLoaded ==
  /\ hostPc = "loading"
  /\ Flushed
  /\ hostPc' = "inited"
  /\ earthTexture' = "live"
  /\ sphere' = "live"
  /\ groupChildren' = groupChildren \cup {Node("Sphere", 0)}
  /\ scene' = SceneWithLights(scene)
  /\ controls' = IF camera # NULL /\ renderer # "none" THEN "live" ELSE controls
  /\ focusTimer' = TRUE
  /\ LET id == NextFrame(hostFrames \cup lineFrames)
     IN IF CanAnimate
        THEN /\ hostFrames' = hostFrames \cup {id}
             /\ hostAnimationFrameId' = Ref(id)
             /\ rotationY' = IdleSpin(rotationY, isDragging)
        ELSE UNCHANGED <<hostFrames, hostAnimationFrameId, rotationY>>
  /\ lastOp' = [op |-> "textureLoaded"]
  /\ UNCHANGED <<mounted, containerRef, globeGroup, camera, renderer, isDragging,
                 resizeListener, propVars, markerVars, lineVars>>

\* the texture load fails: initScene and onMounted reject, nothing else runs
TextureFailed ==
  /\ hostPc = "loading"
  /\ Flushed
  /\ hostPc' = "failed"
  /\ lastOp' = [op |-> "textureFailed"]
  /\ UNCHANGED <<mounted, containerRef, scene, globeGroup, groupChildren, rotationY,
                 camera, renderer, sphere, earthTexture, controls, isDragging,
                 hostAnimationFrameId, hostFrames, focusTimer, resizeListener,
                 propVars, markerVars, lineVars>>

\* handleResize: TRUE when it recomputes the projection
handleResize == containerRef /\ camera # NULL /\ renderer # "none"

\* onMounted after "await initScene()"
Mounted ==
  /\ hostPc = "inited"
  /\ hostPc' = "done"
  /\ resizeListener' = TRUE
  /\ lastOp' = [op |-> "onMounted", resized |-> handleResize]
  /\ UNCHANGED <<mounted, containerRef, scene, globeGroup, groupChildren, rotationY,
                 camera, renderer, sphere, earthTexture, controls, isDragging,
                 hostAnimationFrameId, hostFrames, focusTimer, propVars, markerVars,
                 lineVars>>

\* an animation frame of Globe.vue animate
HostFrame(id) ==
  /\ id \in hostFrames
  /\ Flushed
  /\ isDragging \/ rotationY < MaxSpin
  /\ IF CanAnimate
     THEN LET new == NextFrame((hostFrames \ {id}) \cup lineFrames)
          IN /\ hostFrames' = (hostFrames \ {id}) \cup {new}
             /\ hostAnimationFrameId' = Ref(new)
             /\ rotationY' = IdleSpin(rotationY, isDragging)
     ELSE /\ hostFrames' = hostFrames \ {id}
          /\ UNCHANGED <<hostAnimationFrameId, rotationY>>
  /\ lastOp' = [op |-> "hostFrame", spun |-> ~isDragging]
  /\ UNCHANGED <<mounted, hostPc, containerRef, scene, globeGroup, groupChildren,
                 camera, renderer, sphere, earthTexture, controls, isDragging,
                 focusTimer, resizeListener, propVars, markerVars, lineVars>>

\* the "start" and "end" events of the orbit controls
Drag(on) ==
  /\ controls = "live"
  /\ Flushed
  /\ isDragging # on
  /\ isDragging' = on
  /\ lastOp' = [op |-> "drag", on |-> on]
  /\ UNCHANGED <<mounted, hostPc, containerRef, scene, globeGroup, groupChildren,
                 rotationY, camera, renderer, sphere, earthTexture, controls,
                 hostAnimationFrameId, hostFrames, focusTimer, resizeListener,
                 propVars, markerVars, lineVars>>

\* the 100 ms timer fires
FocusTimer ==
  /\ focusTimer
  /\ Flushed
  /\ focusTimer' = FALSE
  /\ camera' = focusOnMarkers(camera, locations, controls)
  /\ lastOp' = [op |-> "focusOnMarkers"]
  /\ UNCHANGED <<mounted, hostPc, containerRef, scene, globeGroup, groupChildren,
                 rotationY, renderer, sphere, earthTexture, controls, isDragging,
                 hostAnimationFrameId, hostFrames, resizeListener, propVars,
                 markerVars, lineVars>>

\* a window resize event
WindowResize ==
  /\ resizeListener
  /\ Flushed
  /\ lastOp' = [op |-> "handleResize", resized |-> handleResize]
  /\ UNCHANGED <<mounted, hostVars, groupChildren, propVars, markerVars, lineVars>>


-----------------------------------------------------------------------------
(* The caller changes the props *)

\* rebuilds of the Line Layer that are pending or have started a loop
LoopsCommitted ==
  Cardinality(lineFrames) + (IF lineSceneQ THEN 1 ELSE 0) + (IF linePropQ THEN 1 ELSE 0)

\* another rebuild of the Line Layer stays within MaxLineLoops
LoopBudget == linePropQ \/ LoopsCommitted + (IF scene = NULL THEN 1 ELSE 0) < MaxLineLoops

\* a change of the locations that the Marker Layer's watcher does not see
ChangeLocations_NoMarkerWatch(locs) ==
  /\ mounted
  /\ LoopBudget
  /\ locations' = locs
  /\ linePropQ' = TRUE
  /\ lastOp' = [op |-> "changeLocations"]
  /\ UNCHANGED <<mounted, hostVars, groupChildren, connections, markers, hoveredMarker,
                 cursor, markerSceneQ, markerPropQ, lines, lineProgress,
                 lineAnimationFrameId, lineFrames, lineSceneQ>>

ChangeLocations(locs) ==
  /\ mounted
  /\ LoopBudget
  /\ locations' = locs
  /\ markerPropQ' = TRUE
  /\ linePropQ' = TRUE
  /\ lastOp' = [op |-> "changeLocations"]
  /\ UNCHANGED <<mounted, hostVars, groupChildren, connections, markers, hoveredMarker,
                 cursor, markerSceneQ, lines, lineProgress, lineAnimationFrameId,
                 lineFrames, lineSceneQ>>

ChangeConnections(conns) ==
  /\ mounted
  /\ LoopBudget
  /\ connections' = conns
  /\ linePropQ' = TRUE
  /\ lastOp' = [op |-> "changeConnections"]
  /\ UNCHANGED <<mounted, hostVars, groupChildren, locations, markerVars, lines,
                 lineProgress, lineAnimationFrameId, lineFrames, lineSceneQ>>

-----------------------------------------------------------------------------
(* Marker Layer callbacks *)

\* a call of createMarkers from the watcher named by op
CallCreateMarkers(op) ==
  LET r == createMarkers(scene, markers, groupChildren, locations, SeqIds(lines))
  IN /\ markers' = r.markers
     /\ groupChildren' = r.group
     /\ lastOp' = [op |-> op, path |-> r.path,
                   again |-> /\ lastOp.op \in {"markerSceneWatcher", "markerPropWatcher"}
                             /\ lastOp.path = "built"]

\* watch(() => scene?.value, ...) of markers.vue
MarkerSceneWatcher ==
  /\ markerSceneQ
  /\ markerSceneQ' = FALSE
  /\ IF scene # NULL
     THEN CallCreateMarkers("markerSceneWatcher")
     ELSE /\ lastOp' = [op |-> "markerSceneWatcher", path |-> "skipped", again |-> FALSE]
          /\ UNCHANGED <<markers, groupChildren>>
  /\ UNCHANGED <<mounted, hostVars, propVars, hoveredMarker, cursor, markerPropQ,
                 lineVars>>

\* watch(() => props.locations, ..., {deep: true}) of markers.vue
MarkerPropWatcher ==
  /\ markerPropQ
  /\ markerPropQ' = FALSE
  /\ IF scene # NULL
     THEN CallCreateMarkers("markerPropWatcher")
     ELSE /\ lastOp' = [op |-> "markerPropWatcher", path |-> "skipped", again |-> FALSE]
          /\ UNCHANGED <<markers, groupChildren>>
  /\ UNCHANGED <<mounted, hostVars, propVars, hoveredMarker, cursor, markerSceneQ,
                 lineVars>>

\* a call of handleMarkerHover
MarkerHover(index, isHovered) ==
  /\ mounted
  /\ LET r == handleMarkerHover(markers, index, isHovered)
     IN /\ markers' = r.markers
        /\ hoveredMarker' = r.hoveredMarker
        /\ cursor' = r.cursor
  /\ lastOp' = [op |-> "handleMarkerHover", index |-> index, isHovered |-> isHovered,
                hadMarker |-> HasMarker(markers, index),
                afterOn |-> /\ lastOp.op = "handleMarkerHover"
                            /\ lastOp.index = index
                            /\ lastOp.isHovered]
  /\ UNCHANGED <<mounted, hostVars, groupChildren, propVars, markerSceneQ, markerPropQ,
                 lineVars>>

-----------------------------------------------------------------------------
(* Line Layer callbacks *)

\* a call of createLines from the watcher named by op, the clock reading time
CallCreateLines(op, time) ==
  LET r == createLines(scene, lines, lineProgress, groupChildren, connections,
                       locations, SeqIds(markers))
      a == animate(r.lines, r.lineProgress, time)
      id == NextFrame(hostFrames \cup lineFrames)
  IN /\ groupChildren' = r.group
     /\ IF r.path = "built"
        THEN /\ lines' = a.lines
             /\ lineProgress' = a.lineProgress
             /\ lineFrames' = lineFrames \cup {id}
             /\ lineAnimationFrameId' = Ref(id)
        ELSE UNCHANGED <<lines, lineProgress, lineFrames, lineAnimationFrameId>>
     /\ lastOp' = [op |-> op, path |-> r.path,
                   again |-> /\ lastOp.op \in {"lineSceneWatcher", "linePropWatcher"}
                             /\ lastOp.path = "built"]

\* watch(() => scene?.value, ...) of animated-lines.vue
LineSceneWatcher(time) ==
  /\ lineSceneQ
  /\ lineSceneQ' = FALSE
  /\ IF scene # NULL
     THEN CallCreateLines("lineSceneWatcher", time)
     ELSE /\ lastOp' = [op |-> "lineSceneWatcher", path |-> "skipped",
                        again |-> FALSE]
          /\ UNCHANGED <<lines, lineProgress, lineFrames, lineAnimationFrameId,
                         groupChildren>>
  /\ UNCHANGED <<mounted, hostVars, propVars, markerVars, linePropQ>>

\* watch([() => props.connections, () => props.locations], ..., {deep: true})
LinePropWatcher(time) ==
  /\ linePropQ
  /\ linePropQ' = FALSE
  /\ IF scene # NULL
     THEN CallCreateLines("linePropWatcher", time)
     ELSE /\ lastOp' = [op |-> "linePropWatcher", path |-> "skipped",
                        again |-> FALSE]
          /\ UNCHANGED <<lines, lineProgress, lineFrames, lineAnimationFrameId,
                         groupChildren>>
  /\ UNCHANGED <<mounted, hostVars, propVars, markerVars, lineSceneQ>>

\* an animation frame of animated-lines.vue animate
LineFrame(id, time) ==
  /\ id \in lineFrames
  /\ Flushed
  /\ LET a == animate(lines, lineProgress, time)
         new == NextFrame(hostFrames \cup (lineFrames \ {id}))
     IN /\ lines' = a.lines
        /\ lineProgress' = a.lineProgress
        /\ lineFrames' = (lineFrames \ {id}) \cup {new}
        /\ lineAnimationFrameId' = Ref(new)
  /\ lastOp' = [op |-> "lineFrame", time |-> time]
  /\ UNCHANGED <<mounted, hostVars, groupChildren, propVars, markerVars, lineSceneQ,
                 linePropQ>>

-----------------------------------------------------------------------------
(* Unmount *)

\* onUnmounted of Globe.vue: what is left of the pending render-loop callbacks
HostFramesAfterUnmount ==
  IF hostAnimationFrameId # NULL
  THEN Cancel(hostFrames, Val(hostAnimationFrameId))
  ELSE hostFrames

\* The Scene Host is unmounted.  Vue stops the watchers of the three components,
\* clears the template ref and runs the children's onUnmounted hooks, then the
\* host's, in one flush.
Unmount ==
  /\ mounted
  /\ LET mu == markersUnmounted(scene, markers, groupChildren)
         lu == linesUnmounted(scene, lines, mu.group, lineFrames, lineAnimationFrameId)
     IN /\ markers' = mu.markers
        /\ lines' = lu.lines
        /\ lineFrames' = lu.frames
        /\ groupChildren' = lu.group
        /\ lastOp' = [op |-> "unmount", at |-> hostPc, markersPath |-> mu.path,
                      linesPath |-> lu.path, hadMarkers |-> Len(markers)]
  /\ mounted' = FALSE
  /\ containerRef' = FALSE
  /\ markerSceneQ' = FALSE
  /\ markerPropQ' = FALSE
  /\ lineSceneQ' = FALSE
  /\ linePropQ' = FALSE
  /\ resizeListener' = FALSE
  /\ hostFrames' = HostFramesAfterUnmount
  /\ controls' = Dispose(controls)
  /\ renderer' = Dispose(renderer)
  /\ earthTexture' = Dispose(earthTexture)
  /\ sphere' = Dispose(sphere)
  /\ UNCHANGED <<hostPc, scene, globeGroup, rotationY, camera, isDragging,
                 hostAnimationFrameId, focusTimer, propVars, hoveredMarker, cursor,
                 lineProgress, lineAnimationFrameId>>

-----------------------------------------------------------------------------

\* mounting, initialization and unmounting of the Scene Host
Lifecycle ==
  \/ InitScene
  \/ TextureLoaded
  \/ TextureFailed
  \/ Mounted
  \/ Unmount

\* the render loop, the orbit controls, the focus timer and window resizes
HostRuntime ==
  \/ \E id \in hostFrames : HostFrame(id)
  \/ \E on \in BOOLEAN : Drag(on)
  \/ FocusTimer
  \/ WindowResize

\* the caller changes a prop
PropChange ==
  \/ \E locs \in LocationLists : ChangeLocations(locs)
  \/ \E conns \in ConnectionLists : ChangeConnections(conns)

\* the watcher callbacks of the two layers
SceneWatchers ==
  \/ MarkerSceneWatcher
  \/ \E time \in Times : LineSceneWatcher(time)

PropWatchers ==
  \/ MarkerPropWatcher
  \/ \E time \in Times : LinePropWatcher(time)

Watchers ==
  \/ SceneWatchers
  \/ PropWatchers

Hover == \E index \in 0..MaxLocs, isHovered \in BOOLEAN : MarkerHover(index, isHovered)

LineAnimation == \E id \in lineFrames, time \in Times : LineFrame(id, time)

Next ==
  \/ Lifecycle
  \/ HostRuntime
  \/ PropChange
  \/ Watchers
  \/ Hover
  \/ LineAnimation

\* The whole program.
Spec == Init /\ [][Next]_vars

\* A fixed scenario of two locations lists and two connections lists.  With
\* the shorter locations list no connection resolves.
ScenarioLocations == {<<Location("A", 0, 0), Location("B", 90, 90)>>,
                      <<Location("A", 0, 0)>>}
ScenarioConnections == {<<Connection("A", "B")>>,
                        <<Connection("A", "C"), Connection("A", "B")>>}

InitScenario ==
  /\ Init
  /\ locations \in ScenarioLocations
  /\ connections \in ScenarioConnections

ScenarioChange ==
  \/ \E locs \in ScenarioLocations : ChangeLocations(locs)
  \/ \E conns \in ScenarioConnections : ChangeConnections(conns)

\* The two layers through the life of the Scene Host, the props moving within
\* the scenario.  The render loop, the orbit controls and the hover operation,
\* which touch none of the state the rebuilds and the lines' animation use,
\* are left out.
NextLayers ==
  \/ Lifecycle
  \/ ScenarioChange
  \/ Watchers
  \/ LineAnimation

SpecLayers == InitScenario /\ [][NextLayers]_vars

\* The Scene Host with its render loop, the props staying as they were at mount.
NextHost ==
  \/ Lifecycle
  \/ HostRuntime
  \/ SceneWatchers

SpecHost == InitScenario /\ [][NextHost]_vars

\* The Marker Layer over every locations list, with no connections.
InitMarkers ==
  /\ Init
  /\ connections = <<>>

NextMarkers ==
  \/ Lifecycle
  \/ \E locs \in LocationLists : ChangeLocations(locs)
  \/ Watchers

SpecMarkers == InitMarkers /\ [][NextMarkers]_vars

\* The hover operation of the Marker Layer, the locations moving within the
\* scenario, with no connections.
InitHover ==
  /\ InitMarkers
  /\ locations \in ScenarioLocations

NextHover ==
  \/ Lifecycle
  \/ \E locs \in ScenarioLocations : ChangeLocations(locs)
  \/ Watchers
  \/ Hover

SpecHover == InitHover /\ [][NextHover]_vars

\* The Line Layer over every locations list and every connections list, the
\* locations staying as they were at mount.
NextLines ==
  \/ InitScene
  \/ Unmount
  \/ \E conns \in ConnectionLists : ChangeConnections(conns)
  \/ SceneWatchers
  \/ \E time \in Times : LinePropWatcher(time)

SpecLines == Init /\ [][NextLines]_vars

-----------------------------------------------------------------------------
(* Properties *)

MarkerRebuilds == {"markerSceneWatcher", "markerPropWatcher"}
LineRebuilds == {"lineSceneWatcher", "linePropWatcher"}

\* the last handler was a rebuild that went through to building the visuals
MarkersRebuilt == lastOp.op \in MarkerRebuilds /\ lastOp.path = "built"
LinesRebuilt == lastOp.op \in LineRebuilds /\ lastOp.path = "built"

\* C1: whenever the scene handle is set, the scene contains the Globe Group, and
\* no rebuild of a layer that read a scene took the "group not found" return.
C1_GroupFound ==
  /\ scene # NULL => FindGlobeGroup(scene) # NULL
  /\ lastOp.op \in MarkerRebuilds \cup LineRebuilds => lastOp.path # "nogroup"

\* a rebuild started by the scene watcher found the group while the texture loads
C1_Witness ==
  /\ lastOp.op \in {"markerSceneWatcher", "lineSceneWatcher"}
  /\ lastOp.path = "built"
  /\ hostPc = "loading"

\* C2 as stated: the scene handle is absent until the texture is loaded and the
\* sphere and the controls exist, and nothing is built while the load is pending.
C2_PublishedAfterInit ==
  /\ scene # NULL => earthTexture # "none" /\ sphere # "none" /\ controls # "none"
  /\ hostPc = "loading" => markers = <<>> /\ lines = <<>>

\* C2 amended: the scene handle is absent until the first part of initScene has
\* created the scene, camera, renderer and Globe Group, and nothing is built
\* while it is absent; it is set all through the wait for the texture.
C2_PublishedBeforeLoad ==
  /\ hostPc = "nextTick" => scene = NULL
  /\ hostPc = "loading" => scene # NULL
  /\ scene # NULL <=> camera # NULL /\ renderer # "none" /\ globeGroup # "none"
  /\ scene = NULL => markers = <<>> /\ lines = <<>> /\ groupChildren = {}

\* markers and an arc were built while the texture load was still pending
C2_Witness ==
  /\ hostPc = "loading"
  /\ earthTexture = "none"
  /\ controls = "none"
  /\ markers # <<>>
  /\ lines # <<>>

\* C3: at most one animation-frame callback of the Line Layer is pending.
C3_OneLoop == Cardinality(lineFrames) <= 1

\* C4: once the Line Layer is unmounted no animation-frame callback of it is
\* pending, its arc collection is empty and no arc is left under the Globe Group.
C4_LinesQuietAfterUnmount ==
  ~mounted =>
    /\ lineFrames = {}
    /\ lines = <<>>
    /\ {n \in groupChildren : n.kind = "Line"} = {}

\* C5: once the Scene Host is unmounted it has no pending render-loop callback
\* and no resize listener.
C5_HostQuietAfterUnmount ==
  ~mounted => hostFrames = {} /\ ~resizeListener

\* C6: after a Marker Layer rebuild that found the scene and the Globe Group
\* the marker collection has one entry per location, entry k stands at the
\* projection of the k-th location and is a child of the Globe Group, and the
\* entries are distinct objects.
C6_OneMarkerPerLocation ==
  MarkersRebuilt =>
    /\ Len(markers) = Len(locations)
    /\ Cardinality(SeqIds(markers)) = Len(locations)
    /\ \A k \in 1..Len(markers) :
         /\ markers[k].position.x = 0 - MarkerRadius * SinDeg(90 - locations[k].lat)
                                                     * CosDeg(locations[k].lng + 180)
         /\ markers[k].position.y = MarkerRadius * CosDeg(90 - locations[k].lat)
         /\ markers[k].position.z = MarkerRadius * SinDeg(90 - locations[k].lat)
                                                 * SinDeg(locations[k].lng + 180)
         /\ Node("Marker", markers[k].id) \in groupChildren

\* a rebuild over a full-length list that names a location twice
C6_Witness ==
  /\ MarkersRebuilt
  /\ Len(locations) = MaxLocs
  /\ \E j, k \in 1..Len(locations) : j # k /\ locations[j].name = locations[k].name

OfKind(kind) == {n \in groupChildren : n.kind = kind}
Positions(ms) == [k \in 1..Len(ms) |-> ms[k].position]
EndPoints(ls) == [k \in 1..Len(ls) |-> <<ls[k].start, ls[k].end>>]

\* the markers and arcs under the Globe Group are the members of the collections
C7_NoLeftovers ==
  /\ OfKind("Marker") = {Node("Marker", id) : id \in SeqIds(markers)}
  /\ OfKind("Line") = {Node("Line", id) : id \in SeqIds(lines)}
  /\ Cardinality(SeqIds(markers)) = Len(markers)
  /\ Cardinality(SeqIds(lines)) = Len(lines)

\* a rebuild that follows a rebuild of the same layer with nothing in between
\* yields a collection of the same size and positions
C7_SameAgain ==
  /\ (lastOp'.op \in MarkerRebuilds /\ lastOp'.path = "built" /\ lastOp'.again
      /\ locations' = locations)
       => Positions(markers') = Positions(markers)
  /\ (lastOp'.op \in LineRebuilds /\ lastOp'.path = "built" /\ lastOp'.again
      /\ locations' = locations /\ connections' = connections)
       => EndPoints(lines') = EndPoints(lines)

\* C7: rebuilds never accumulate visuals: the markers and arcs attached under
\* the Globe Group are exactly the members of the current collections, and two
\* successive rebuilds with identical props yield collections of the same size
\* and positions.
C7_NoAccumulation == []C7_NoLeftovers /\ [][C7_SameAgain]_vars

\* a second rebuild of each layer has run, with markers and an arc in place
C7_Witness ==
  /\ lastOp.op \in MarkerRebuilds
  /\ lastOp.path = "built"
  /\ lastOp.again
  /\ Len(markers) = 2
  /\ Len(lines) = 1
  /\ Cardinality(lineFrames) = 2

LocationNames == {locations[j].name : j \in 1..Len(locations)}

\* the connection at position k names two locations
Resolves(k) ==
  /\ connections[k].from \in LocationNames
  /\ connections[k].to \in LocationNames

\* the first location of the list with the name
FirstNamed(name) ==
  locations[Min({j \in 1..Len(locations) : locations[j].name = name})]

\* C8: after a Line Layer rebuild the arc collection holds one arc for each
\* connection whose two names are names of locations, in the order of the
\* connections, between the projections of the two locations, under the Globe
\* Group; an unresolved connection yields no arc and stops nothing after it.
C8_ArcsOfResolvedConnections ==
  LinesRebuilt =>
    /\ Len(lines) = Cardinality({k \in 1..Len(connections) : Resolves(k)})
    /\ \A i \in 1..Len(lines) :
         LET k == lines[i].conn + 1
         IN /\ k \in 1..Len(connections)
            /\ Resolves(k)
            /\ Cardinality({j \in 1..k : Resolves(j)}) = i
            /\ lines[i].start = latLngToVector3(FirstNamed(connections[k].from).lat,
                                                FirstNamed(connections[k].from).lng,
                                                MarkerRadius)
            /\ lines[i].end = latLngToVector3(FirstNamed(connections[k].to).lat,
                                              FirstNamed(connections[k].to).lng,
                                              MarkerRadius)
            /\ Node("Line", lines[i].id) \in groupChildren

\* a rebuild that skipped an unresolved connection and built the one after it
C8_Witness ==
  /\ LinesRebuilt
  /\ Len(connections) = 2
  /\ ~Resolves(1)
  /\ Resolves(2)
  /\ Len(lines) = 1

\* C9: for an index that has a marker, the hover operation called with
\* (i, true) and then with (i, false) leaves the marker's sphere in the base
\* color, the hovered-index record absent and the cursor at "auto".
C9_HoverReverts ==
  (/\ lastOp.op = "handleMarkerHover"
   /\ ~lastOp.isHovered
   /\ lastOp.afterOn
   /\ lastOp.hadMarker)
    => /\ markers[lastOp.index + 1].color = BaseColor
       /\ hoveredMarker = NULL
       /\ cursor = "auto"

\* the pair of calls has run on the second marker
C9_Witness ==
  /\ lastOp.op = "handleMarkerHover"
  /\ ~lastOp.isHovered
  /\ lastOp.afterOn
  /\ lastOp.hadMarker
  /\ lastOp.index = 1

\* C10: the hover operation called with an index that has no marker changes
\* neither the hovered-index record, nor the cursor, nor any marker.
C10_HoverOutOfRangeNoOp ==
  [][(lastOp'.op = "handleMarkerHover" /\ ~lastOp'.hadMarker)
       => UNCHANGED <<hoveredMarker, cursor, markers>>]_vars

\* C11: an unmount with the scene and the Globe Group available leaves the
\* marker collection empty and none of the markers it held under the Globe
\* Group; an unmount without a scene, or with no markers, leaves the collection
\* and the markers under the Globe Group as they were.
C11_UnmountClearsMarkers ==
  [][(mounted /\ lastOp'.op = "unmount") =>
       /\ (scene # NULL /\ FindGlobeGroup(scene) # NULL =>
             /\ markers' = <<>>
             /\ \A k \in 1..Len(markers) :
                  Node("Marker", markers[k].id) \notin groupChildren')
       /\ (scene = NULL \/ markers = <<>> =>
             /\ markers' = markers
             /\ OfKind("Marker")' = OfKind("Marker"))]_vars

C11_Witness ==
  /\ lastOp.op = "unmount"
  /\ lastOp.markersPath = "cleared"
  /\ lastOp.hadMarkers > 0
  /\ markers = <<>>
  /\ OfKind("Marker") = {}

\* C12: a frame of the Scene Host's render loop that runs with the dragging flag
\* false turns the Globe Group by exactly one increment of 0.0015 rad, a frame
\* that runs with the flag true (after a "start" event and before the next "end"
\* event) turns it by nothing, and nothing else turns it; so the rotation is the
\* initial one plus one increment for each frame that ran with the flag false.
\* A frame is a callback of the loop or the call of animate that ends initScene.
C12_SpinOnlyWhenIdle ==
  [][rotationY' =
       IF lastOp'.op \in {"hostFrame", "textureLoaded"} /\ CanAnimate /\ ~isDragging
       THEN rotationY + 1
       ELSE rotationY]_vars

C12_Witness ==
  /\ lastOp.op = "hostFrame"
  /\ ~lastOp.spun
  /\ isDragging
  /\ CanAnimate
  /\ rotationY = MaxSpin

-----------------------------------------------------------------------------
(* The animation of the arcs *)

\* frame times in tenths of a second: two times and the times 2 s after them
FrameTimes == {0, 7, 20, 27}

\* The Line Layer's loop over every connections list of two known locations,
\* with frames at the times of FrameTimes.
InitAnimation ==
  \E conns \in ConnectionLists :
    InitWith(<<Location("A", 0, 0), Location("B", 90, 90)>>, conns)

NextAnimation ==
  \/ InitScene
  \/ SceneWatchers
  \/ \E id \in lineFrames, time \in FrameTimes : LineFrame(id, time)

SpecAnimation == InitAnimation /\ [][NextAnimation]_vars

\* C13: after a frame of the Line Layer's loop at time t, the progress of the
\* arc at index i is (0.5 t + 0.2 i) mod 1 (here in hundredths, t in tenths of a
\* second), it lies in [0, 1), and a frame 2 s later computes the same value.
C13_ProgressOfFrame ==
  lastOp.op = "lineFrame" =>
    \A k \in 1..Len(lines) :
      /\ lineProgress[k] = (5 * lastOp.time + 20 * (k - 1)) % 100
      /\ lineProgress[k] >= 0
      /\ lineProgress[k] < 100
      /\ animate(lines, lineProgress, lastOp.time + 20).lineProgress[k] = lineProgress[k]

C13_Witness ==
  /\ lastOp.op = "lineFrame"
  /\ lastOp.time = 27
  /\ Len(lines) = 2
  /\ lineProgress = <<35, 55>>

-----------------------------------------------------------------------------
(* The projection of both layers *)

\* locations at the pole with four longitudes, and one on the equator
PolePool ==
  {Location("N", 90, 0), Location("P", 90, 90), Location("Q", 90, -90),
   Location("R", 90, 180), Location("E", 0, 90)}

PoleNames == {l.name : l \in PolePool}

\* Both layers are built once from a list of locations of PolePool and one
\* connection between two of their names.
InitProjection ==
  \E locs \in BSeq(PolePool, MaxLocs), f \in PoleNames, t \in PoleNames :
    InitWith(locs, <<Connection(f, t)>>)

NextProjection ==
  \/ InitScene
  \/ SceneWatchers

SpecProjection == InitProjection /\ [][NextProjection]_vars

Pole(radius) == [x |-> 0, y |-> radius, z |-> 0]

\* C14: a location at lat = 90 is projected to (0, R, 0) by both layers whatever
\* its lng, and the two layers project a location to the same point: a marker
\* and the end of an arc at the same location are at the same place.
C14_PoleProjection ==
  /\ \A k \in 1..Len(locations), radius \in {1, MarkerRadius} :
       LET l == locations[k]
       IN /\ latLngToVector3(l.lat, l.lng, radius) = lineLatLngToVector3(l.lat, l.lng, radius)
          /\ l.lat = 90 => lineLatLngToVector3(l.lat, l.lng, radius) = Pole(radius)
  /\ \A k \in 1..Len(markers) :
       locations[k].lat = 90 => markers[k].position = Pole(MarkerRadius)
  /\ \A i \in 1..Len(lines), k \in 1..Len(markers) :
       LET c == connections[lines[i].conn + 1]
       IN /\ locations[k] = FirstNamed(c.from) => lines[i].start = markers[k].position
          /\ locations[k] = FirstNamed(c.to) => lines[i].end = markers[k].position

C14_Witness ==
  /\ Len(markers) = 2
  /\ Len(lines) = 1
  /\ locations[1].lat = 90
  /\ locations[2].lat = 90
  /\ locations[1].lng # locations[2].lng
  /\ markers[1].position = Pole(MarkerRadius)
  /\ markers[2].position = Pole(MarkerRadius)
  /\ lines[1].start = Pole(MarkerRadius)
  /\ lines[1].end = Pole(MarkerRadius)
  /\ connections[1].from # connections[1].to

\* C15: after a rebuild of the Line Layer the arc of the connection at index i
\* is at index i of the arc collection, and the progress collection has the
\* indices of the arc collection, each holding a progress.
C15_SameIndices ==
  LinesRebuilt =>
    /\ \A i \in 1..Len(lines) : lines[i].conn = i - 1
    /\ Len(lineProgress) = Len(lines)
    /\ \A i \in 1..Len(lineProgress) : lineProgress[i] # HOLE

\* the markers are those of the locations, one each and in their order
MarkersOfLocations ==
  /\ Len(markers) = Len(locations)
  /\ \A k \in 1..Len(markers) :
       markers[k].position =
         latLngToVector3(locations[k].lat, locations[k].lng, MarkerRadius)

\* the connections both of whose names are names of locations
ResolvableConnections == {k \in 1..Len(connections) : Resolves(k)}

\* the arcs are those of the resolvable connections, one each and in their order
ArcsOfConnections ==
  /\ Len(lines) = Cardinality(ResolvableConnections)
  /\ \A i \in 1..Len(lines) :
       LET k == lines[i].conn + 1
       IN /\ k \in ResolvableConnections
          /\ Cardinality({j \in ResolvableConnections : j <= k}) = i
          /\ EndPoints(lines)[i] =
               <<lineLatLngToVector3(FirstNamed(connections[k].from).lat,
                                     FirstNamed(connections[k].from).lng, MarkerRadius),
                 lineLatLngToVector3(FirstNamed(connections[k].to).lat,
                                     FirstNamed(connections[k].to).lng, MarkerRadius)>>

\* C16: while the layers are mounted, whenever the scene handle is set and no
\* watcher callback is queued, the markers are those of the current locations
\* and the arcs those of the current resolvable connections, whatever changes
\* of the props came before, those made before the scene handle was set too.
C16_ViewsFollowProps ==
  (mounted /\ scene # NULL /\ Flushed) => (MarkersOfLocations /\ ArcsOfConnections)

\* both layers rebuilt after a change of the locations that took an arc away
C16_Witness ==
  /\ mounted
  /\ scene # NULL
  /\ Flushed
  /\ lastOp.op \in {"markerPropWatcher", "linePropWatcher"}
  /\ lastOp.path = "built"
  /\ Len(markers) = 1
  /\ Len(connections) = 2
  /\ lines = <<>>

\* the top-level children of the scene
TopLevel == Val(scene).children

\* C17: whenever the scene handle is set, exactly one top-level child of the
\* scene is a grouping node, the search for the first one finds it and it is
\* the Globe Group the Scene Host created; every marker and arc of the
\* collections is a child of the Globe Group and none is at the top level; and
\* no step, rebuild or teardown, changes what the search returns.
C17_OneGroupAtTop ==
  /\ [](scene # NULL =>
          /\ Cardinality({k \in 1..Len(TopLevel) : TopLevel[k] = GroupKind}) = 1
          /\ FindGlobeGroup(scene) = Ref(GroupKind)
          /\ globeGroup = "live"
          /\ \A k \in 1..Len(TopLevel) : TopLevel[k] \notin {"Marker", "Line", "Sphere"}
          /\ \A id \in SeqIds(markers) : Node("Marker", id) \in groupChildren
          /\ \A id \in SeqIds(lines) : Node("Line", id) \in groupChildren)
  /\ [][scene # NULL => FindGlobeGroup(scene') = FindGlobeGroup(scene)]_vars

\* the scene with its lights, after rebuilds of both layers and the teardown
C17_Witness ==
  /\ scene # NULL
  /\ Len(TopLevel) = 3
  /\ lastOp.op = "unmount"
  /\ lastOp.hadMarkers > 0
  /\ lastOp.linesPath = "cleared"
  /\ FindGlobeGroup(scene) = Ref(GroupKind)

\* a collection without the identities of its objects
MarkerShape(ms) == [k \in 1..Len(ms) |-> [position |-> ms[k].position, color |-> ms[k].color]]
LineShape(ls) ==
  [k \in 1..Len(ls) |-> [conn |-> ls[k].conn, start |-> ls[k].start, end |-> ls[k].end,
                         rgb |-> ls[k].rgb, alpha |-> ls[k].alpha]]

\* what is under a Globe Group gc, related to the collections ms and ls
GroupShape(gc, ms, ls) ==
  [markers |-> {n \in gc : n.kind = "Marker"} = {Node("Marker", id) : id \in SeqIds(ms)},
   lines |-> {n \in gc : n.kind = "Line"} = {Node("Line", id) : id \in SeqIds(ls)},
   sphere |-> {n \in gc : n.kind = "Sphere"},
   size |-> Cardinality(gc)]

\* the outcome of the Marker Layer's rebuild followed by the Line Layer's
MarkersThenLines(time) ==
  LET m == createMarkers(scene, markers, groupChildren, locations, SeqIds(lines))
      l == createLines(scene, lines, lineProgress, m.group, connections, locations,
                       SeqIds(m.markers))
      a == animate(l.lines, l.lineProgress, time)
  IN [markers |-> MarkerShape(m.markers), lines |-> LineShape(a.lines),
      lineProgress |-> a.lineProgress, group |-> GroupShape(l.group, m.markers, a.lines)]

\* the outcome of the Line Layer's rebuild followed by the Marker Layer's
LinesThenMarkers(time) ==
  LET l == createLines(scene, lines, lineProgress, groupChildren, connections, locations,
                       SeqIds(markers))
      a == animate(l.lines, l.lineProgress, time)
      m == createMarkers(scene, markers, l.group, locations, SeqIds(a.lines))
  IN [markers |-> MarkerShape(m.markers), lines |-> LineShape(a.lines),
      lineProgress |-> a.lineProgress, group |-> GroupShape(m.group, m.markers, a.lines)]

\* a rebuild of each layer is queued and the scene handle is set
BothTriggered ==
  /\ scene # NULL
  /\ markerSceneQ \/ markerPropQ
  /\ lineSceneQ \/ linePropQ

\* C18: when a rebuild of each layer is queued, the two rebuilds run in either
\* order end with the same markers, the same arcs and the same visuals under the
\* Globe Group (the same up to the identity of the rebuilt objects), all of them
\* attached; and a rebuild of one layer leaves alone the collection of the other
\* layer, its visuals under the Globe Group, and the sphere.
C18_RebuildsCommute ==
  /\ [](BothTriggered =>
          \A time \in Times :
            /\ MarkersThenLines(time) = LinesThenMarkers(time)
            /\ MarkersThenLines(time).group.markers
            /\ MarkersThenLines(time).group.lines)
  /\ [][/\ lastOp'.op \in MarkerRebuilds =>
              /\ UNCHANGED <<lines, lineProgress>>
              /\ OfKind("Line")' = OfKind("Line")
              /\ OfKind("Sphere")' = OfKind("Sphere")
        /\ lastOp'.op \in LineRebuilds =>
              /\ UNCHANGED markers
              /\ OfKind("Marker")' = OfKind("Marker")
              /\ OfKind("Sphere")' = OfKind("Sphere")]_vars

\* the Marker Layer has rebuilt and the Line Layer's rebuild of the same tick
\* is still queued, the arcs of the earlier build in place
C18_Witness ==
  /\ lastOp.op = "markerPropWatcher"
  /\ lastOp.path = "built"
  /\ linePropQ
  /\ markers # <<>>
  /\ lines # <<>>
  /\ OfKind("Line") = {Node("Line", lines[k].id) : k \in 1..Len(lines)}

\* C19: after a frame of the Line Layer's loop, for every arc with progress p
\* the vertices with alpha 1 are those with index j <= floor(51 p) and the
\* others have alpha 0; so the visible vertices are a prefix of the 51 that
\* starts at vertex 0, vertex 0 is visible, and the arc's vertices are white.
C19_VisiblePrefix ==
  lastOp.op = "lineFrame" =>
    \A k \in 1..Len(lines) :
      LET alpha == lines[k].alpha
          visible == (51 * lineProgress[k]) \div 100
      IN /\ DOMAIN alpha = 0..50
         /\ \A j \in 0..50 : alpha[j] = IF j <= visible THEN 1 ELSE 0
         /\ alpha[0] = 1
         /\ \A j \in 1..50 : alpha[j] = 1 => alpha[j - 1] = 1
         /\ lines[k].rgb = "white"

\* two arcs after a frame at 0.7 s: progress 0.35 shows vertices 0..17,
\* progress 0.55 shows vertices 0..28
C19_Witness ==
  /\ lastOp.op = "lineFrame"
  /\ lastOp.time = 7
  /\ Len(lines) = 2
  /\ lines[1].alpha[17] = 1
  /\ lines[1].alpha[18] = 0
  /\ lines[2].alpha[28] = 1
  /\ lines[2].alpha[29] = 0

\* C20: the hovered-index record is absent or the index of a marker of the
\* collection, and a marker has the highlight color exactly when its index is
\* the hovered-index record.
C20_HoverConsistent ==
  /\ hoveredMarker # NULL => HasMarker(markers, Val(hoveredMarker))
  /\ \A k \in 1..Len(markers) :
       (markers[k].color = HighlightColor) <=> (hoveredMarker = Ref(k - 1))

====
